---- MODULE Spec2Model ----
(***************************************************************************)
(* Model of main.py: a Telegram bot that scrapes movie listings, sends a   *)
(* notification per unseen title and records sent titles in the SQLite     *)
(* table shown_movies.                                                     *)
(*                                                                         *)
(* The coroutines run on one asyncio event loop: a coroutine runs without  *)
(* interruption from one await to the next (requests.get and sqlite3 block *)
(* the loop), and at an await the loop may resume any other coroutine.     *)
(* `running` names the coroutine that holds the loop's thread.             *)
(*                                                                         *)
(* Spec has the update handler and the job callback check_new_movies on a  *)
(* fresh database; JobSpec is the job alone with the order of its          *)
(* deliveries; MainSpec is the program as main starts it, from any state   *)
(* of movies.db.                                                           *)
(***************************************************************************)
EXTENDS Integers, Sequences, FiniteSets, TLC

\* Bounds of the model.
MaxCycles == 2
MaxExamined == 2

\* Python's None where a text is expected: a value that no text equals (a text
\* is a sequence of one-character strings).
None == <<"None">>
Loop == "loop"

\* The two coroutines that can be in flight: the update handler (the
\* Application is built without concurrent_updates, so updates are handled one
\* at a time) and the job callback check_new_movies.
Tasks == {"menu", "job"}

\* url_map, in insertion order (the order check_new_movies iterates in).
url_map == <<"English Movies", "Hindi Movies", "Asian Movies">>

\* Texts a user can send to handle_menu.
MenuTexts == {"English Movies", "Hindi Movies", "Asian Movies", "Cancel", "hello"}

CategoryIndex(text) == CHOOSE i \in DOMAIN url_map : url_map[i] = text

InUrlMap(text) == \E i \in DOMAIN url_map : url_map[i] = text

----------------------------------------------------------------------------
\* Text is a sequence of one-character strings.

\* The backquote is written "backquote": a TLA+ string cannot hold it.
escape_chars ==
    {"\\", "_", "*", "[", "]", "(", ")", "~", "backquote", ">", "#", "+", "-",
     "=", "|", "{", "}", ".", "!"}

Whitespace == {" "}

RECURSIVE escape_markdown(_)
escape_markdown(text) ==
    IF text = <<>> THEN <<>>
    ELSE (IF Head(text) \in escape_chars THEN <<"\\", Head(text)>> ELSE <<Head(text)>>)
         \o escape_markdown(Tail(text))

RECURSIVE lstrip(_)
lstrip(text) ==
    IF text # <<>> /\ Head(text) \in Whitespace THEN lstrip(Tail(text)) ELSE text

RECURSIVE rstrip(_)
rstrip(text) ==
    IF text # <<>> /\ text[Len(text)] \in Whitespace
    THEN rstrip(SubSeq(text, 1, Len(text) - 1))
    ELSE text

strip(text) == rstrip(lstrip(text))

RECURSIVE join(_, _)
join(sep, parts) ==
    IF parts = <<>> THEN <<>>
    ELSE IF Len(parts) = 1 THEN parts[1]
    ELSE parts[1] \o sep \o join(sep, Tail(parts))

NA == <<"N", "/", "A">>

NoStory ==
    <<"N", "o", " ", "s", "t", "o", "r", "y", " ", "a", "v", "a", "i", "l",
      "a", "b", "l", "e", ".">>

----------------------------------------------------------------------------
\* Inputs: what the pages hold.

\* The text of an item's h3, or None when the item has no h3.
RawTitles == {<<"a">>, <<"a", " ">>, <<"b", "!">>}

\* The texts of an item's li elements.
GenreInputs == {<<<<"g", "-", "h">>, <<"k">>>>}

\* An item's img: absent, without data-src, or with one.
ImgInputs == {"no_img", "no_data_src", "img"}

\* An item's first anchor: absent, without href, or with one.
AnchorInputs == {"no_a", "no_href", "a"}

PosterUrl == "http://poster"
DetailUrl == "http://detail"
ImdbUrl == "http://imdb"

\* A detail page: the fetch's outcome and, per element, whether it is absent,
\* well formed ("ok") or present without the child the code reads ("bare").
PageError == [status |-> "error", story |-> "absent", release_year |-> "absent",
              quality |-> "absent", imdbS |-> "absent"]
PageFull == [status |-> "ok", story |-> "ok", release_year |-> "ok",
             quality |-> "ok", imdbS |-> "ok"]
PageEmpty == [status |-> "ok", story |-> "absent", release_year |-> "absent",
              quality |-> "absent", imdbS |-> "absent"]
PageStoryNoP == [status |-> "ok", story |-> "bare", release_year |-> "ok",
                 quality |-> "ok", imdbS |-> "ok"]

DetailPages == {PageError, PageFull, PageEmpty, PageStoryNoP}

StoryText == <<"s", ".">>
YearText == <<"2", "4">>
QualityText == <<"H", "D">>
RatingText == <<"7", ".", "1">>

\* Keys of the ledger: the titles as the code stores them.
Keys == {escape_markdown(strip(r)) : r \in RawTitles}

----------------------------------------------------------------------------
VARIABLES
    ledger,        \* rows of shown_movies, in insertion order
    chat,          \* per stored title, the notifications delivered for it
    running,       \* the coroutine holding the event loop's thread, or Loop
    pc,            \* per task, where its coroutine stands
    notify,        \* per task, scrape_and_send_movies' notify_no_movies
    src,           \* per task, the index in url_map of the source in hand
    nitems,        \* per task, the number of Block--Item divs of the listing
    idx,           \* per task, the position of the item in hand
    movies_sent,   \* per task, scrape_and_send_movies' movies_sent
    cur,           \* per task, the locals of the item in hand
    cycles,        \* number of cycles started so far
    seen_at_start, \* history: per task, the titles recorded when its pass began
    examined,      \* number of listing items handed out so far
    new_found,     \* history: per task, whether this pass found an item not yet shown
    notice,        \* history: per task, the notice this pass has issued
    recorded,      \* history: titles for which mark_movie_shown has returned
    send_failed,   \* history: titles for which a send has raised
    sent_log,      \* history kept by JobSpec: <<source, position>> of each item
                   \* delivered since the coroutine began, in order of delivery
    db             \* movies.db: "no_file", "no_table" (a file without the
                   \* table shown_movies) or "table"

vars == <<ledger, chat, running, pc, notify, src, nitems, idx, movies_sent, cur,
          cycles, examined, seen_at_start, new_found, notice, recorded,
          send_failed, sent_log, db>>

NoItem == [title |-> None]

Titles(rows) == {rows[i].title : i \in DOMAIN rows}

Init ==
    /\ ledger = <<>>
    /\ chat = [k \in Keys |-> 0]
    /\ running = Loop
    /\ pc = [t \in Tasks |-> "idle"]
    /\ notify = [t \in Tasks |-> FALSE]
    /\ src = [t \in Tasks |-> 0]
    /\ nitems = [t \in Tasks |-> 0]
    /\ idx = [t \in Tasks |-> 0]
    /\ movies_sent = [t \in Tasks |-> FALSE]
    /\ cur = [t \in Tasks |-> NoItem]
    /\ cycles = 0
    /\ seen_at_start = [t \in Tasks |-> {}]
    /\ examined = 0
    /\ new_found = [t \in Tasks |-> FALSE]
    /\ notice = [t \in Tasks |-> "none"]
    /\ recorded = {}
    /\ send_failed = {}
    /\ sent_log = <<>>
    /\ db = "table"

----------------------------------------------------------------------------
\* The ledger.

\* Variant: the lookup never finds the title.
is_movie_shown_never(rows, title) == FALSE

is_movie_shown(rows, title) == \E i \in DOMAIN rows : rows[i].title = title

\* Variant: a plain INSERT into a table without the UNIQUE constraint.
mark_movie_shown_plain(rows, row) == Append(rows, row)

\* Variant: INSERT OR REPLACE, the row of the same title gives way to the new one.
mark_movie_shown_replace(rows, row) ==
    Append(SelectSeq(rows, LAMBDA r : r.title # row.title), row)

mark_movie_shown(rows, row) ==
    IF \E i \in DOMAIN rows : rows[i].title = row.title
    THEN rows
    ELSE Append(rows, row)

----------------------------------------------------------------------------
\* The detail page.

get(dict, key, default) == IF key \in DOMAIN dict THEN dict[key] ELSE default

EmptyDict == [k \in {} |-> <<>>]

\* The dictionary scrape_movie_details returns, or raised = TRUE when an
\* exception other than requests.RequestException leaves it.
scrape_movie_details(page) ==
    IF page.status = "error"
    THEN [raised |-> FALSE, value |-> EmptyDict]
    ELSE IF "bare" \in {page.story, page.release_year, page.quality, page.imdbS}
    THEN [raised |-> TRUE, value |-> EmptyDict]
    ELSE [raised |-> FALSE,
          value |-> [story |-> IF page.story = "ok" THEN StoryText ELSE <<>>,
                     release_year |-> IF page.release_year = "ok" THEN YearText ELSE <<>>,
                     quality |-> IF page.quality = "ok" THEN QualityText ELSE <<>>,
                     rating |-> IF page.imdbS = "ok" THEN RatingText ELSE <<>>,
                     imdbLink |-> IF page.imdbS = "ok" THEN ImdbUrl ELSE ""]]

\* The category hashtag of the caption: the line that adds it is commented out.
NoTag == "no_tag"
CaptionTag(category) == NoTag

\* The locals of an item once its details are in, caption included;
\* delivered tells whether the item's send has returned.
Render(item, details, category) ==
    LET release_year == escape_markdown(get(details, "release_year", NA))
        quality == escape_markdown(get(details, "quality", NA))
        rating == escape_markdown(get(details, "rating", NA))
        imdbLink == get(details, "imdbLink", "")
        story == escape_markdown(get(details, "story", NoStory))
    IN [title |-> item.title, genreList |-> join(<<",", " ">>, item.genres),
        poster |-> item.poster, link |-> item.link,
        release_year |-> release_year, quality |-> quality, rating |-> rating,
        story |-> story, delivered |-> FALSE,
        caption |-> [titleName |-> escape_markdown(item.title),
                     genreList |-> join(<<",", " ">>, item.genres),
                     release_year |-> release_year, quality |-> quality,
                     rating |-> rating, ratingLink |-> imdbLink,
                     story |-> story, tag |-> CaptionTag(category)]]

Row(item) ==
    [title |-> item.title, genreList |-> item.genreList,
     release_year |-> item.release_year, quality |-> item.quality,
     rating |-> item.rating, story |-> item.story, link |-> item.link]

----------------------------------------------------------------------------
\* Handlers of the bot.

\* start: replies with the menu.
Start ==
    /\ running = Loop /\ pc["menu"] = "idle"
    /\ pc' = [pc EXCEPT !["menu"] = "reply"]
    /\ UNCHANGED <<ledger, chat, running, notify, src, nitems, idx, movies_sent,
                   cur, cycles, seen_at_start, examined, new_found, notice,
                   recorded,
                   send_failed>>
    /\ UNCHANGED <<db, sent_log>>

\* handle_menu with a text that is no category: one reply.
HandleMenuOther(text) ==
    /\ running = Loop /\ pc["menu"] = "idle"
    /\ ~InUrlMap(text)
    /\ pc' = [pc EXCEPT !["menu"] = "reply"]
    /\ UNCHANGED <<ledger, chat, running, notify, src, nitems, idx, movies_sent,
                   cur, cycles, seen_at_start, examined, new_found, notice,
                   recorded,
                   send_failed>>
    /\ UNCHANGED <<db, sent_log>>

\* The reply of start or of handle_menu's last two branches is over.
Replied ==
    /\ running = Loop /\ pc["menu"] = "reply"
    /\ pc' = [pc EXCEPT !["menu"] = "idle"]
    /\ UNCHANGED <<ledger, chat, running, notify, src, nitems, idx, movies_sent,
                   cur, cycles, seen_at_start, examined, new_found, notice,
                   recorded,
                   send_failed>>
    /\ UNCHANGED <<db, sent_log>>

\* handle_menu with a category: awaits the "Fetching ..." reply.
HandleMenuCategory(text) ==
    /\ running = Loop /\ pc["menu"] = "idle"
    /\ InUrlMap(text)
    /\ cycles < MaxCycles
    /\ cycles' = cycles + 1
    /\ pc' = [pc EXCEPT !["menu"] = "fetching_reply"]
    /\ src' = [src EXCEPT !["menu"] = CategoryIndex(text)]
    /\ notify' = [notify EXCEPT !["menu"] = TRUE]
    /\ UNCHANGED <<ledger, chat, running, nitems, idx, movies_sent, cur,
                   seen_at_start, examined, new_found, notice, recorded,
                   send_failed>>
    /\ UNCHANGED <<db, sent_log>>

\* The "Fetching ..." reply returns and scrape_and_send_movies is called.
FetchingReplied ==
    /\ running = Loop /\ pc["menu"] = "fetching_reply"
    /\ running' = "menu"
    /\ pc' = [pc EXCEPT !["menu"] = "fetch"]
    /\ UNCHANGED <<ledger, chat, notify, src, nitems, idx, movies_sent, cur,
                   cycles, examined, seen_at_start, new_found, notice, recorded,
                   send_failed>>
    /\ UNCHANGED <<db, sent_log>>

\* The "Fetching ..." reply raises: handle_menu is left.
FetchingReplyRaises ==
    /\ running = Loop /\ pc["menu"] = "fetching_reply"
    /\ running' = "menu"
    /\ pc' = [pc EXCEPT !["menu"] = "raised"]
    /\ UNCHANGED <<ledger, chat, notify, src, nitems, idx, movies_sent, cur,
                   cycles, examined, seen_at_start, new_found, notice, recorded,
                   send_failed>>
    /\ UNCHANGED <<db, sent_log>>

\* check_new_movies is invoked as a job callback: its first pass, over
\* url_map's first entry. (main leaves the job's registration commented out;
\* the action is the invocation the function is written for.)
CheckNewMovies ==
    /\ running = Loop /\ pc["job"] = "idle"
    /\ cycles < MaxCycles
    /\ cycles' = cycles + 1
    /\ running' = "job"
    /\ pc' = [pc EXCEPT !["job"] = "fetch"]
    /\ src' = [src EXCEPT !["job"] = 1]
    /\ notify' = [notify EXCEPT !["job"] = FALSE]
    /\ UNCHANGED <<ledger, chat, nitems, idx, movies_sent, cur, seen_at_start,
                   examined, new_found, notice, recorded,
                   send_failed>>
    /\ UNCHANGED <<db, sent_log>>

----------------------------------------------------------------------------
\* scrape_and_send_movies, step by step.

\* `continue`: on to the next item of the for loop.
Continue(t) ==
    /\ pc' = [pc EXCEPT ![t] = "for"]
    /\ cur' = [cur EXCEPT ![t] = NoItem]

\* Variant: the handler leaves the loop instead of continuing.
ItemExceptBreak(t) ==
    /\ pc' = [pc EXCEPT ![t] = "after_for"]
    /\ cur' = [cur EXCEPT ![t] = NoItem]

\* The handler of the per-item try: log and continue.
ItemExcept(t) == Continue(t)

\* Variant: the flag is not consulted.
ShouldNotifyAlways(sent, flag) == ~sent

\* The condition of the "No new movies found" message.
ShouldNotify(sent, flag) == ~sent /\ flag

\* The handler of requests.RequestException: log, then send the notice.
FetchExcept(t) ==
    /\ pc' = [pc EXCEPT ![t] = "error_notice"]
    /\ notice' = [notice EXCEPT ![t] = "error"]
    /\ running' = Loop

\* requests.get / raise_for_status on the listing raise.
FetchRaises(t) ==
    /\ running = t /\ pc[t] = "fetch"
    /\ seen_at_start' = [seen_at_start EXCEPT ![t] = Titles(ledger)]
    /\ new_found' = [new_found EXCEPT ![t] = FALSE]
    /\ FetchExcept(t)
    /\ UNCHANGED <<ledger, chat, notify, src, nitems, idx, movies_sent, cur,
                   cycles, examined, recorded,
                   send_failed>>
    /\ UNCHANGED <<db, sent_log>>

\* The listing is fetched and parsed: n items.
FetchReturns(t, n) ==
    /\ running = t /\ pc[t] = "fetch"
    /\ examined + n <= MaxExamined
    /\ examined' = examined + n
    /\ seen_at_start' = [seen_at_start EXCEPT ![t] = Titles(ledger)]
    /\ new_found' = [new_found EXCEPT ![t] = FALSE]
    /\ notice' = [notice EXCEPT ![t] = "none"]
    /\ nitems' = [nitems EXCEPT ![t] = n]
    /\ idx' = [idx EXCEPT ![t] = 0]
    /\ movies_sent' = [movies_sent EXCEPT ![t] = FALSE]
    /\ pc' = [pc EXCEPT ![t] = "for"]
    /\ UNCHANGED <<ledger, chat, running, notify, src, cur, cycles, recorded,
                   send_failed>>
    /\ UNCHANGED <<db, sent_log>>

\* The for statement: the next item, or the end of the loop.
ForNext(t) ==
    /\ running = t /\ pc[t] = "for"
    /\ IF idx[t] < nitems[t]
       THEN /\ idx' = [idx EXCEPT ![t] = @ + 1]
            /\ pc' = [pc EXCEPT ![t] = "examine"]
       ELSE /\ pc' = [pc EXCEPT ![t] = "after_for"]
            /\ UNCHANGED idx
    /\ UNCHANGED <<ledger, chat, running, notify, src, nitems, movies_sent, cur,
                   cycles, examined, seen_at_start, new_found, notice, recorded,
                   send_failed>>
    /\ UNCHANGED <<db, sent_log>>

\* The item has no h3: it is skipped.
ExamineNoTitle(t) ==
    /\ running = t /\ pc[t] = "examine"
    /\ Continue(t)
    /\ UNCHANGED <<ledger, chat, running, notify, src, nitems, idx, movies_sent,
                   cycles, examined, seen_at_start, new_found, notice, recorded,
                   send_failed>>
    /\ UNCHANGED <<db, sent_log>>

\* The item's title is read, stripped and escaped.
Examine(t, h3) ==
    /\ running = t /\ pc[t] = "examine"
    /\ cur' = [cur EXCEPT ![t] = [title |-> escape_markdown(strip(h3))]]
    /\ pc' = [pc EXCEPT ![t] = "lookup"]
    /\ UNCHANGED <<ledger, chat, running, notify, src, nitems, idx, movies_sent,
                   cycles, examined, seen_at_start, new_found, notice, recorded,
                   send_failed>>
    /\ UNCHANGED <<db, sent_log>>

\* Variant: a lookup that fails counts as "not shown" and the item goes on.
LookupRaisesAsNew(t) ==
    /\ running = t /\ pc[t] = "lookup"
    /\ new_found' = [new_found EXCEPT ![t] = TRUE]
    /\ pc' = [pc EXCEPT ![t] = "extract"]
    /\ UNCHANGED <<ledger, chat, running, notify, src, nitems, idx, movies_sent,
                   cur, cycles, examined, seen_at_start, notice, recorded,
                   send_failed>>
    /\ UNCHANGED <<db, sent_log>>

\* is_movie_shown raises (the database cannot be read).
LookupRaises(t) ==
    /\ running = t /\ pc[t] = "lookup"
    /\ ItemExcept(t)
    /\ UNCHANGED <<ledger, chat, running, notify, src, nitems, idx, movies_sent,
                   cycles, examined, seen_at_start, new_found, notice, recorded,
                   send_failed>>
    /\ UNCHANGED <<db, sent_log>>

\* is_movie_shown returns (the table is there): a title already shown is
\* skipped.
Lookup(t) ==
    /\ running = t /\ pc[t] = "lookup"
    /\ db = "table"
    /\ IF is_movie_shown(ledger, cur[t].title)
       THEN /\ Continue(t)
            /\ UNCHANGED new_found
       ELSE /\ new_found' = [new_found EXCEPT ![t] = TRUE]
            /\ pc' = [pc EXCEPT ![t] = "extract"]
            /\ UNCHANGED cur
    /\ UNCHANGED <<ledger, chat, running, notify, src, nitems, idx, movies_sent,
                   cycles, examined, seen_at_start, notice, recorded, send_failed>>
    /\ UNCHANGED <<db, sent_log>>

\* Genres, poster and link are read; an item without an anchor is skipped.
Extract(t, lis, img, a) ==
    /\ running = t /\ pc[t] = "extract"
    /\ IF a = "no_a"
       THEN Continue(t)
       ELSE /\ cur' = [cur EXCEPT ![t] =
                 [title |-> cur[t].title,
                  genres |-> [i \in DOMAIN lis |-> escape_markdown(strip(lis[i]))],
                  poster |-> IF img = "img" THEN PosterUrl ELSE "",
                  link |-> IF a = "a" THEN DetailUrl ELSE ""]]
            /\ pc' = [pc EXCEPT ![t] = "enrich"]
    /\ UNCHANGED <<ledger, chat, running, notify, src, nitems, idx, movies_sent,
                   cycles, examined, seen_at_start, new_found, notice, recorded,
                   send_failed>>
    /\ UNCHANGED <<db, sent_log>>

\* Variant: the item is recorded before it is sent.
EnrichMarksFirst(t, page) ==
    /\ running = t /\ pc[t] = "enrich"
    /\ cur[t].link = "" => page.status = "error"
    /\ LET details == scrape_movie_details(page)
       IN IF details.raised
          THEN ItemExcept(t)
          ELSE /\ cur' = [cur EXCEPT ![t] = Render(cur[t], details.value, url_map[src[t]])]
               /\ pc' = [pc EXCEPT ![t] = "mark"]
    /\ UNCHANGED <<ledger, chat, running, notify, src, nitems, idx, movies_sent,
                   cycles, seen_at_start, examined, new_found, notice, recorded,
                   send_failed>>
    /\ UNCHANGED <<db, sent_log>>

\* The detail page is scraped, the caption built and the send awaited; an
\* empty link cannot be fetched.
Enrich(t, page) ==
    /\ running = t /\ pc[t] = "enrich"
    /\ cur[t].link = "" => page.status = "error"
    /\ LET details == scrape_movie_details(page)
       IN IF details.raised
          THEN /\ ItemExcept(t)
               /\ UNCHANGED running
          ELSE /\ cur' = [cur EXCEPT ![t] = Render(cur[t], details.value, url_map[src[t]])]
               /\ pc' = [pc EXCEPT ![t] = "send"]
               /\ running' = Loop
    /\ UNCHANGED <<ledger, chat, notify, src, nitems, idx, movies_sent, cycles,
                   seen_at_start, examined, new_found, notice, recorded,
                   send_failed>>
    /\ UNCHANGED <<db, sent_log>>

\* send_photo / send_message returns: the notification is in the chat.
SendReturned(t) ==
    /\ running = Loop /\ pc[t] = "send"
    /\ running' = t
    /\ chat' = [chat EXCEPT ![cur[t].title] = @ + 1]
    /\ cur' = [cur EXCEPT ![t].delivered = TRUE]
    /\ pc' = [pc EXCEPT ![t] = "mark"]
    /\ UNCHANGED <<ledger, notify, src, nitems, idx, movies_sent, cycles,
                   seen_at_start, examined, new_found, notice, recorded,
                   send_failed>>
    /\ UNCHANGED db

SendReturns(t) == SendReturned(t) /\ UNCHANGED sent_log

\* The same step, with the delivery entered in the history sent_log.
SendReturnsLogged(t) ==
    SendReturned(t) /\ sent_log' = Append(sent_log, <<src[t], idx[t]>>)

\* Variant: a failed send is swallowed and the item recorded all the same.
SendRaisesThenMarks(t) ==
    /\ running = Loop /\ pc[t] = "send"
    /\ running' = t
    /\ send_failed' = send_failed \cup {cur[t].title}
    /\ pc' = [pc EXCEPT ![t] = "mark"]
    /\ UNCHANGED <<ledger, chat, notify, src, nitems, idx, movies_sent, cur,
                   cycles, examined, seen_at_start, new_found, notice, recorded>>
    /\ UNCHANGED <<db, sent_log>>

\* send_photo / send_message raises.
SendRaises(t) ==
    /\ running = Loop /\ pc[t] = "send"
    /\ running' = t
    /\ send_failed' = send_failed \cup {cur[t].title}
    /\ ItemExcept(t)
    /\ UNCHANGED <<ledger, chat, notify, src, nitems, idx, movies_sent, cycles,
                   seen_at_start, examined, new_found, notice, recorded>>
    /\ UNCHANGED <<db, sent_log>>

\* mark_movie_shown returns (the table is there); movies_sent is set.
MarkReturns(t) ==
    /\ running = t /\ pc[t] = "mark"
    /\ db = "table"
    /\ ledger' = mark_movie_shown(ledger, Row(cur[t]))
    /\ recorded' = recorded \cup {cur[t].title}
    /\ movies_sent' = [movies_sent EXCEPT ![t] = TRUE]
    /\ Continue(t)
    /\ UNCHANGED <<chat, running, notify, src, nitems, idx, cycles,
                   seen_at_start, examined, new_found, notice, send_failed>>
    /\ UNCHANGED <<db, sent_log>>

\* mark_movie_shown raises (the database cannot be written).
MarkRaises(t) ==
    /\ running = t /\ pc[t] = "mark"
    /\ ItemExcept(t)
    /\ UNCHANGED <<ledger, chat, running, notify, src, nitems, idx, movies_sent,
                   cycles, examined, seen_at_start, new_found, notice, recorded,
                   send_failed>>
    /\ UNCHANGED <<db, sent_log>>

\* After the loop: the "No new movies found" message, or the return.
AfterFor(t) ==
    /\ running = t /\ pc[t] = "after_for"
    /\ IF ShouldNotify(movies_sent[t], notify[t])
       THEN /\ pc' = [pc EXCEPT ![t] = "no_new_notice"]
            /\ notice' = [notice EXCEPT ![t] = "no_new"]
            /\ running' = Loop
       ELSE /\ pc' = [pc EXCEPT ![t] = "return"]
            /\ UNCHANGED <<notice, running>>
    /\ UNCHANGED <<ledger, chat, notify, src, nitems, idx, movies_sent, cur,
                   cycles, seen_at_start, examined, new_found, recorded,
                   send_failed>>
    /\ UNCHANGED <<db, sent_log>>

\* The send_message of a notice returns, and scrape_and_send_movies with it.
NoticeReturns(t) ==
    /\ running = Loop /\ pc[t] \in {"no_new_notice", "error_notice"}
    /\ running' = t
    /\ pc' = [pc EXCEPT ![t] = "return"]
    /\ UNCHANGED <<ledger, chat, notify, src, nitems, idx, movies_sent, cur,
                   cycles, examined, seen_at_start, new_found, notice, recorded,
                   send_failed>>
    /\ UNCHANGED <<db, sent_log>>

\* The send_message of a notice raises: nothing in scrape_and_send_movies
\* catches it.
NoticeRaises(t) ==
    /\ running = Loop /\ pc[t] \in {"no_new_notice", "error_notice"}
    /\ running' = t
    /\ pc' = [pc EXCEPT ![t] = "raised"]
    /\ UNCHANGED <<ledger, chat, notify, src, nitems, idx, movies_sent, cur,
                   cycles, examined, seen_at_start, new_found, notice, recorded,
                   send_failed>>
    /\ UNCHANGED <<db, sent_log>>

\* The task's locals once its coroutine is over.
Finish(t) ==
    /\ running' = Loop
    /\ pc' = [pc EXCEPT ![t] = "idle"]
    /\ src' = [src EXCEPT ![t] = 0]
    /\ notify' = [notify EXCEPT ![t] = FALSE]
    /\ nitems' = [nitems EXCEPT ![t] = 0]
    /\ idx' = [idx EXCEPT ![t] = 0]
    /\ movies_sent' = [movies_sent EXCEPT ![t] = FALSE]
    /\ seen_at_start' = [seen_at_start EXCEPT ![t] = {}]
    /\ new_found' = [new_found EXCEPT ![t] = FALSE]
    /\ notice' = [notice EXCEPT ![t] = "none"]
    /\ sent_log' = <<>>

\* Variant: the loop over url_map goes back to an earlier entry.
NextSourceBackwards(t) ==
    /\ running = t /\ pc[t] = "return" /\ t = "job"
    /\ src' = [src EXCEPT ![t] = IF @ = 1 THEN 2 ELSE 1]
    /\ pc' = [pc EXCEPT ![t] = "fetch"]
    /\ UNCHANGED <<running, notify, nitems, idx, movies_sent,
                   seen_at_start, new_found, notice, sent_log>>
    /\ UNCHANGED <<ledger, chat, cur, cycles, examined, recorded,
                   send_failed>>
    /\ UNCHANGED db

\* scrape_and_send_movies has returned to check_new_movies: the next entry of
\* url_map, or the end of the job.
NextSource(t) ==
    /\ running = t /\ pc[t] = "return" /\ t = "job"
    /\ IF src[t] < Len(url_map)
       THEN /\ src' = [src EXCEPT ![t] = @ + 1]
            /\ pc' = [pc EXCEPT ![t] = "fetch"]
            /\ UNCHANGED <<running, notify, nitems, idx, movies_sent,
                           seen_at_start, new_found, notice, sent_log>>
       ELSE Finish(t)
    /\ UNCHANGED <<ledger, chat, cur, cycles, examined, recorded,
                   send_failed>>
    /\ UNCHANGED db

\* scrape_and_send_movies has returned to handle_menu, which returns.
MenuReturns(t) ==
    /\ running = t /\ pc[t] = "return" /\ t = "menu"
    /\ Finish(t)
    /\ UNCHANGED <<ledger, chat, cur, cycles, examined, recorded,
                   send_failed>>
    /\ UNCHANGED db

\* An exception leaves handle_menu or check_new_movies: the coroutine is over.
Unwind(t) ==
    /\ running = t /\ pc[t] = "raised"
    /\ Finish(t)
    /\ UNCHANGED <<ledger, chat, cur, cycles, examined, recorded,
                   send_failed>>
    /\ UNCHANGED db

----------------------------------------------------------------------------
Next ==
    \/ Start
    \/ \E text \in MenuTexts : HandleMenuOther(text)
    \/ Replied
    \/ \E text \in MenuTexts : HandleMenuCategory(text)
    \/ FetchingReplied
    \/ FetchingReplyRaises
    \/ CheckNewMovies
    \/ \E t \in Tasks : FetchRaises(t)
    \/ \E t \in Tasks, n \in 0..MaxExamined : FetchReturns(t, n)
    \/ \E t \in Tasks : ForNext(t)
    \/ \E t \in Tasks : ExamineNoTitle(t)
    \/ \E t \in Tasks, h3 \in RawTitles : Examine(t, h3)
    \/ \E t \in Tasks : LookupRaises(t)
    \/ \E t \in Tasks : Lookup(t)
    \/ \E t \in Tasks, lis \in GenreInputs, img \in ImgInputs, a \in AnchorInputs :
          Extract(t, lis, img, a)
    \/ \E t \in Tasks, page \in DetailPages : Enrich(t, page)
    \/ \E t \in Tasks : SendReturns(t)
    \/ \E t \in Tasks : SendRaises(t)
    \/ \E t \in Tasks : MarkReturns(t)
    \/ \E t \in Tasks : MarkRaises(t)
    \/ \E t \in Tasks : AfterFor(t)
    \/ \E t \in Tasks : NoticeReturns(t)
    \/ \E t \in Tasks : NoticeRaises(t)
    \/ \E t \in Tasks : NextSource(t)
    \/ \E t \in Tasks : MenuReturns(t)
    \/ \E t \in Tasks : Unwind(t)

Spec == Init /\ [][Next]_vars

\* The job alone, from one invocation of check_new_movies to the next, with
\* the order of its deliveries kept in sent_log.
JobNext ==
    \/ CheckNewMovies
    \/ FetchRaises("job")
    \/ \E n \in 0..MaxExamined : FetchReturns("job", n)
    \/ ForNext("job")
    \/ ExamineNoTitle("job")
    \/ \E h3 \in RawTitles : Examine("job", h3)
    \/ LookupRaises("job")
    \/ Lookup("job")
    \/ \E lis \in GenreInputs, img \in ImgInputs, a \in AnchorInputs :
          Extract("job", lis, img, a)
    \/ \E page \in DetailPages : Enrich("job", page)
    \/ SendReturnsLogged("job")
    \/ SendRaises("job")
    \/ MarkReturns("job")
    \/ MarkRaises("job")
    \/ AfterFor("job")
    \/ NoticeReturns("job")
    \/ NoticeRaises("job")
    \/ NextSource("job")
    \/ Unwind("job")

JobSpec == Init /\ [][JobNext]_vars

----------------------------------------------------------------------------
\* The program as main starts it: whatever movies.db is when the process
\* starts, main runs initialize_database, registers the two handlers and polls.
\* The job's registration is commented out, so only updates are served.

\* A row left in shown_movies by an earlier run of the program.
StoredRow(h3) ==
    Row(Render([title |-> escape_markdown(strip(h3)),
                genres |-> <<<<"k">>>>, poster |-> PosterUrl, link |-> DetailUrl],
               scrape_movie_details(PageFull).value, url_map[1]))

StoredLedgers ==
    {<<>>, <<StoredRow(<<"a">>)>>, <<StoredRow(<<"b", "!">>)>>,
     <<StoredRow(<<"a">>), StoredRow(<<"b", "!">>)>>}

\* What initialize_database makes of movies.db: the table is created only
\* when there is no file.
initialize_database(file) == IF file = "no_file" THEN "table" ELSE file

MainInit ==
    /\ db \in {"no_file", "no_table", "table"}
    /\ ledger \in IF db = "table" THEN StoredLedgers ELSE {<<>>}
    /\ chat = [k \in Keys |-> 0]
    /\ running = "main"
    /\ pc = [t \in Tasks |-> "idle"]
    /\ notify = [t \in Tasks |-> FALSE]
    /\ src = [t \in Tasks |-> 0]
    /\ nitems = [t \in Tasks |-> 0]
    /\ idx = [t \in Tasks |-> 0]
    /\ movies_sent = [t \in Tasks |-> FALSE]
    /\ cur = [t \in Tasks |-> NoItem]
    /\ cycles = 0
    /\ seen_at_start = [t \in Tasks |-> {}]
    /\ examined = 0
    /\ new_found = [t \in Tasks |-> FALSE]
    /\ notice = [t \in Tasks |-> "none"]
    /\ recorded = {}
    /\ send_failed = {}
    /\ sent_log = <<>>

\* main, up to run_polling: no job is registered with the job queue.
Main ==
    /\ running = "main"
    /\ db' = initialize_database(db)
    /\ running' = Loop
    /\ UNCHANGED <<ledger, chat, pc, notify, src, nitems, idx, movies_sent, cur,
                   cycles, examined, seen_at_start, new_found, notice, recorded,
                   send_failed, sent_log>>

\* An update arrives: a user's doing.
MainUpdates ==
    \/ Start
    \/ \E text \in MenuTexts : HandleMenuOther(text)
    \/ \E text \in MenuTexts : HandleMenuCategory(text)

\* The steps the program takes by itself.
MainSteps ==
    \/ Main
    \/ Replied
    \/ FetchingReplied
    \/ FetchingReplyRaises
    \/ FetchRaises("menu")
    \/ \E n \in 0..MaxExamined : FetchReturns("menu", n)
    \/ ForNext("menu")
    \/ ExamineNoTitle("menu")
    \/ \E h3 \in RawTitles : Examine("menu", h3)
    \/ LookupRaises("menu")
    \/ Lookup("menu")
    \/ \E lis \in GenreInputs, img \in ImgInputs, a \in AnchorInputs :
          Extract("menu", lis, img, a)
    \/ \E page \in DetailPages : Enrich("menu", page)
    \/ SendReturns("menu")
    \/ SendRaises("menu")
    \/ MarkReturns("menu")
    \/ MarkRaises("menu")
    \/ AfterFor("menu")
    \/ NoticeReturns("menu")
    \/ NoticeRaises("menu")
    \/ MenuReturns("menu")
    \/ Unwind("menu")

MainNext == MainUpdates \/ MainSteps

\* The event loop runs what is ready to run; nothing obliges a user to write.
\* (Every step of MainSteps changes running or pc.)
MainSpec == MainInit /\ [][MainNext]_vars /\ WF_<<running, pc>>(MainSteps)

----------------------------------------------------------------------------
\* Properties.

Other(t) == CHOOSE u \in Tasks : u # t

RowsOf(k) == {i \in DOMAIN ledger : ledger[i].title = k}

\* C1: a pass never dispatches a title that was already recorded when the pass
\* began, so a cycle that runs after another one sends nothing the earlier one
\* recorded; and every title that was recorded has exactly one row.
C1_IdempotentDedup ==
    /\ \A t \in Tasks :
          pc[t] \in {"send", "mark"} => cur[t].title \notin seen_at_start[t]
    /\ \A k \in recorded : Cardinality(RowsOf(k)) = 1

\* A second cycle, running alone, looks up a title recorded before it began.
C1_Witness ==
    \E t \in Tasks :
        /\ cycles = 2 /\ pc[Other(t)] = "idle"
        /\ pc[t] = "lookup"
        /\ cur[t].title \in seen_at_start[t] \cap recorded
        /\ chat[cur[t].title] = 1

C3_OnceWithSourceTag ==
    /\ \A k \in Keys : chat[k] <= 1
    /\ \A t \in Tasks : pc[t] = "send" => cur[t].caption.tag = url_map[src[t]]

\* C4: a step in which a send raises leaves the ledger as it was and takes the
\* pass back to the for statement with the listing and the position intact, so
\* the title stays unrecorded by it and the remaining items follow.
C4_SendFailureSkipsItem ==
    [][\A t \in Tasks :
          (pc[t] = "send" /\ pc'[t] # "send" /\ chat' = chat) =>
              /\ ledger' = ledger /\ recorded' = recorded
              /\ pc'[t] = "for" /\ idx'[t] = idx[t] /\ nitems'[t] = nitems[t]
              /\ movies_sent'[t] = movies_sent[t]]_vars

\* A title whose send raised earlier, still unrecorded, is being sent again.
C4_Witness ==
    \E t \in Tasks :
        /\ pc[t] = "send"
        /\ cur[t].title \in send_failed
        /\ ~is_movie_shown(ledger, cur[t].title)
        /\ chat[cur[t].title] = 0

\* C5: the ledger changes only by the insert of one row, made by a pass that
\* stands at mark_movie_shown for an item whose send has returned.
C5_RecordOnlyAfterSend ==
    [][ledger' # ledger =>
          \E t \in Tasks :
              /\ pc[t] = "mark" /\ cur[t].delivered
              /\ chat[cur[t].title] >= 1
              /\ ledger' = Append(ledger, Row(cur[t]))]_vars

\* A row has been inserted for a delivered title.
C5_Witness ==
    /\ Len(ledger) = 1
    /\ chat[ledger[1].title] = 1
    /\ \E t \in Tasks : movies_sent[t] /\ pc[t] = "for"

\* C6: whatever failed on the way, a pass is past its loop only when every
\* item of the listing has been taken up.
C6_ItemFaultIsolation ==
    \A t \in Tasks :
        pc[t] \in {"after_for", "no_new_notice"} => idx[t] = nitems[t]

\* In the only pass so far, the send of the first item raised and the second
\* item was sent and recorded.
C6_Witness ==
    /\ cycles = 1 /\ pc["menu"] = "after_for" /\ nitems["menu"] = 2
    /\ send_failed # {}
    /\ movies_sent["menu"]
    /\ \E k \in Keys : chat[k] = 1 /\ is_movie_shown(ledger, k) /\ k \notin send_failed

\* C7: check_new_movies is never left by an exception, after the fetch of a
\* source failed, while later sources of url_map are still to be fetched.
C7_SourceFaultIsolation ==
    ~(/\ pc["job"] = "raised" /\ notice["job"] = "error"
      /\ src["job"] < Len(url_map))

\* C8: when the fetch of a listing fails, the pass has dispatched and recorded
\* nothing, and the error notice is sent only with notify_no_movies set.
C8_FetchFailureNotice ==
    \A t \in Tasks :
        notice[t] = "error" => /\ ~new_found[t] /\ ~movies_sent[t]
                               /\ notify[t]

\* C9: a pass that fetched its listing and found no item that was not yet shown
\* has issued the "No new movies found" message if notify_no_movies is set, and
\* no message at all if it is not.
C9_NoNewNotice ==
    \A t \in Tasks :
        (pc[t] \in {"no_new_notice", "return"} /\ notice[t] # "error" /\ ~new_found[t]) =>
            /\ ~movies_sent[t]
            /\ IF notify[t] THEN notice[t] = "no_new" ELSE notice[t] = "none"

\* Both kinds of pass at once, each over a listing with an item and nothing new:
\* the handler's awaits its message, the job's returns silently.
C9_Witness ==
    /\ pc["menu"] = "no_new_notice" /\ nitems["menu"] >= 1 /\ ~new_found["menu"]
    /\ pc["job"] = "return" /\ nitems["job"] >= 1 /\ ~new_found["job"]
    /\ notice["job"] = "none"

\* C10: no two rows of the ledger hold the same title.
C10_UniqueTitle ==
    \A i, j \in DOMAIN ledger : ledger[i].title = ledger[j].title => i = j

\* Two overlapping passes over different sources have both sent the same title
\* and both returned from mark_movie_shown.
C10_Witness ==
    /\ src["menu"] # src["job"]
    /\ movies_sent["menu"] /\ movies_sent["job"]
    /\ \E k \in Keys : chat[k] = 2 /\ Len(ledger) = 1 /\ ledger[1].title = k

\* C11: mark_movie_shown called with a title that already has a row leaves the
\* table as it is, and no step changes or removes a row: every row stays in
\* its place with all its fields, so the recorded titles only grow.
C11_LedgerOnlyGrows ==
    [][/\ Len(ledger') >= Len(ledger)
       /\ \A i \in DOMAIN ledger : ledger'[i] = ledger[i]
       /\ \A t \in Tasks :
             (pc[t] = "mark" /\ pc'[t] # "mark" /\ is_movie_shown(ledger, cur[t].title))
                 => ledger' = ledger]_vars

\* mark_movie_shown is about to run for a title that already has a row, and
\* the row it is given differs from the stored one.
C11_Witness ==
    \E t \in Tasks :
        /\ pc[t] = "mark" /\ running = t
        /\ \E i \in DOMAIN ledger :
              ledger[i].title = cur[t].title /\ ledger[i] # Row(cur[t])

\* C12: detail enrichment never fails outward: whatever the detail page is
\* (fetch failed, an element missing or malformed), the item whose details
\* are scraped goes on to be sent.
C12_EnrichNeverFailsOutward ==
    [][\A t \in Tasks :
          (pc[t] = "enrich" /\ pc'[t] # "enrich")
              => pc'[t] = "send" /\ cur'[t].title = cur[t].title]_vars

\* C13: in a caption without a rating hyperlink (the page has no rating
\* block) the rating is the placeholder N/A, and a story that is not the
\* page's synopsis is the placeholder "No story available."; neither is empty.
C13_MissingFieldPlaceholders ==
    \A t \in Tasks :
        pc[t] = "send" =>
            /\ cur[t].caption.ratingLink = "" => cur[t].caption.rating = escape_markdown(NA)
            /\ cur[t].caption.story \in {escape_markdown(StoryText), escape_markdown(NoStory)}

\* C14: an item without a detail link, the anchor without a link target
\* included, is dropped before its details are scraped: no item with an
\* empty link is enriched, sent or recorded.
C14_NoLinkIsDropped ==
    \A t \in Tasks : pc[t] \in {"enrich", "send", "mark"} => cur[t].link # ""

\* C15: within one cycle the deliveries are in listing order per source, and
\* those of an earlier entry of url_map come before those of a later one: the
\* <<source, position>> pairs of the deliveries strictly increase, and each
\* is a position of its listing.
C15_DispatchInListingOrder ==
    /\ \A i, j \in DOMAIN sent_log :
          i < j => \/ sent_log[i][1] < sent_log[j][1]
                   \/ sent_log[i][1] = sent_log[j][1] /\ sent_log[i][2] < sent_log[j][2]
    /\ \A i \in DOMAIN sent_log :
          /\ sent_log[i][1] \in 1..src["job"]
          /\ sent_log[i][2] >= 1
          /\ sent_log[i][1] = src["job"] => sent_log[i][2] <= idx["job"]

\* Two items of the second source's listing have been delivered, after an
\* empty first listing.
C15_Witness == sent_log = << <<2, 1>>, <<2, 2>> >> /\ pc["job"] = "mark"

\* C16: when initialize_database has returned the table shown_movies exists,
\* whatever movies.db was when the program started (no file, a file without
\* the table, a file with the table).
C16_TableExistsAfterInit == running # "main" => db = "table"

\* C17: in every run of the program a cycle of check_new_movies started by
\* the scheduler eventually begins.
C17_ScheduledCycleStarts == <>(pc["job"] # "idle")

\* C18: the title of a caption is the listing's title, stripped, with each
\* special character escaped once.
C18_TitleEscapedOnce ==
    \A t \in Tasks : pc[t] = "send" => cur[t].caption.titleName = cur[t].title

\* C19: an item whose is_movie_shown raises is neither seen nor new: while
\* movies.db has no table (every lookup raises) no item gets past the lookup,
\* nothing is sent or recorded, and a pass still goes through its whole listing.
C19_LookupFailureSkipsItem ==
    db # "table" =>
        /\ \A t \in Tasks :
              /\ pc[t] \notin {"extract", "enrich", "send", "mark"}
              /\ ~new_found[t] /\ ~movies_sent[t]
              /\ pc[t] \in {"after_for", "no_new_notice"} => idx[t] = nitems[t]
        /\ \A k \in Keys : chat[k] = 0
        /\ ledger = <<>> /\ recorded = {}

\* The lookup of a listing's second item is about to raise, the table
\* missing, after the first item was given up.
C19_Witness ==
    /\ db = "no_table" /\ running = "menu"
    /\ pc["menu"] = "lookup" /\ idx["menu"] = 2 /\ nitems["menu"] = 2

\* C20: in the first pass a user asks for, the "No new movies found" message
\* is delivered only if no item's notification was delivered in that pass.
C20_NoNewOnlyIfNothingSent ==
    (cycles = 1 /\ pc["menu"] = "return" /\ notice["menu"] = "no_new")
        => \A k \in Keys : chat[k] = 0

====
